---- MODULE Spec2Model ----
(***************************************************************************)
(* Model of the moostar Runner (src/src/moostar.rs): the compiler          *)
(* (fetch_identifier, Runner::process), construction and reset, and the    *)
(* step engine.  Program indices are 0-based as in the source; the TLA+    *)
(* sequences that hold them are 1-based, so element i is read with At.     *)
(***************************************************************************)
EXTENDS Integers, Sequences, FiniteSets, TLC

(***************************************************************************)
(* Characters.  A char is a one-element string; "e_acute" stands for the   *)
(* two-byte character U+00E9.                                              *)
(***************************************************************************)
Whitespace == {" "}
AsciiLower == {"a", "b"}
AsciiAlnum == AsciiLower \cup {"A", "1"}

\* char::len_utf8
len_utf8(c) == IF c = "e_acute" THEN 2 ELSE 1

\* Option<T>
None == [some |-> FALSE]
Some(v) == [some |-> TRUE, v |-> v]

At(s, i) == s[i + 1]

(***************************************************************************)
(* fetch_identifier: the three-stage scanner over the peekable iterator.   *)
(* chars is the not yet consumed input.  Result: [ok, ident, eaten, rest]. *)
(***************************************************************************)
RECURSIVE fetch_loop(_, _, _, _)
fetch_loop(chars, identifier, eaten, stage) ==
    IF chars = << >>
    THEN [identifier |-> identifier, eaten |-> eaten, rest |-> chars, err |-> FALSE]
    ELSE LET c == Head(chars) IN
         CASE stage = 0 ->
                IF c \notin Whitespace
                THEN IF c \in AsciiLower
                     THEN fetch_loop(chars, identifier, eaten, 1)
                     ELSE [identifier |-> identifier, eaten |-> eaten,
                           rest |-> chars, err |-> TRUE]
                ELSE fetch_loop(Tail(chars), identifier, eaten + 1, stage)
           [] stage = 1 ->
                IF c \in AsciiAlnum \/ c = "_"
                THEN fetch_loop(Tail(chars), Append(identifier, c), eaten + 1, stage)
                ELSE fetch_loop(chars, identifier, eaten, 2)
           [] OTHER ->
                IF c \notin Whitespace
                THEN [identifier |-> identifier, eaten |-> eaten,
                      rest |-> chars, err |-> FALSE]
                ELSE fetch_loop(Tail(chars), identifier, eaten + 1, stage)

fetch_identifier(chars) ==
    LET r == fetch_loop(chars, << >>, 0, 0) IN
    IF r.err \/ r.identifier = << >>
    THEN [ok |-> FALSE, ident |-> << >>, eaten |-> r.eaten, rest |-> r.rest]
    ELSE [ok |-> TRUE, ident |-> r.identifier, eaten |-> r.eaten, rest |-> r.rest]

(***************************************************************************)
(* MooInst with its span: SpannedInstruction.                              *)
(***************************************************************************)
Inst(op, pos, len) == [op |-> op, span |-> <<pos, len>>]
InstC(op, c, pos, len) == [op |-> op, c |-> c, span |-> <<pos, len>>]
InstN(op, n, pos, len) == [op |-> op, n |-> n, span |-> <<pos, len>>]

SimpleOp(c) ==
    CASE c = "+" -> "Plus"
      [] c = "-" -> "Minus"
      [] c = ">" -> "Right"
      [] c = "<" -> "Left"
      [] c = "." -> "Out"
      [] c = "," -> "In"
      [] c = "[" -> "OpenLoop"
      [] c = "]" -> "CloseLoop"
      [] c = "^" -> "MetaJump"
      [] OTHER -> "Nop"

\* the guard loop of the '(' arm: next() must be ')', ':' and '{' in order
RECURSIVE expect_guards(_, _)
expect_guards(chars, guards) ==
    IF guards = << >> THEN [ok |-> TRUE, rest |-> chars]
    ELSE IF chars # << >> /\ Head(chars) = Head(guards)
         THEN expect_guards(Tail(chars), Tail(guards))
         ELSE [ok |-> FALSE, rest |-> chars]

\* a lookup that hands out a fresh code at every occurrence of a name
lookup_code_fresh(method_lookup, ident) == Cardinality(DOMAIN method_lookup)

\* method_lookup.get(&ident), inserting method_lookup.len() when unknown
lookup_code(method_lookup, ident) ==
    IF ident \in DOMAIN method_lookup
    THEN method_lookup[ident]
    ELSE Cardinality(DOMAIN method_lookup)

lookup_insert(method_lookup, ident) ==
    IF ident \in DOMAIN method_lookup
    THEN method_lookup
    ELSE method_lookup @@ (ident :> Cardinality(DOMAIN method_lookup))

\* a '(' arm that lets a definition open inside another
reopening_allowed(current_function_definition) == FALSE

\* `if current_function_definition.is_some()` of the '(' arm
reopening(current_function_definition) == current_function_definition.some

\* `if let Some(current) = current_function_definition` of the '}' arm
closing(current_function_definition) == current_function_definition.some

\* an insert that records the index after the FuncStart
index_insert_past_start(method_index, function_code, len) ==
    [k \in (DOMAIN method_index) \cup {function_code} |->
       IF k = function_code THEN len + 1 ELSE method_index[k]]

\* an insert that keeps the entry of an id already in the table
index_insert_keep_first(method_index, function_code, len) ==
    [k \in (DOMAIN method_index) \cup {function_code} |->
       IF k \in DOMAIN method_index THEN method_index[k] ELSE len]

\* method_index.insert(function_code, program_out.len())
index_insert(method_index, function_code, len) ==
    [k \in (DOMAIN method_index) \cup {function_code} |->
       IF k = function_code THEN len ELSE method_index[k]]

(***************************************************************************)
(* Runner::process: one pass over the characters.  st holds the locals of  *)
(* the function: method_lookup, method_index, program_out, the iterator    *)
(* (rest), pos and current_function_definition.                            *)
(***************************************************************************)
RECURSIVE process_loop(_)
process_loop(st) ==
    IF st.rest = << >>
    THEN [ok |-> TRUE,
          program |-> Append(st.program_out, Inst("Halt", st.pos, 1)),
          method_index |-> st.method_index]
    ELSE
    LET c == Head(st.rest)
        rest == Tail(st.rest)
        Err == [ok |-> FALSE]
    IN
    CASE c = "(" ->
           IF reopening(st.current_function_definition) THEN Err
           ELSE LET f == fetch_identifier(rest)
                    g == expect_guards(f.rest, <<")", ":", "{">>)
                IN IF ~f.ok THEN Err
                   ELSE IF ~g.ok THEN Err
                   ELSE LET function_code == lookup_code(st.method_lookup, f.ident)
                        IN process_loop(
                             [st EXCEPT
                               !.method_lookup = lookup_insert(@, f.ident),
                               !.method_index =
                                   index_insert(@, function_code,
                                                Len(st.program_out)),
                               !.program_out =
                                   Append(@, InstN("FuncStart", function_code,
                                                   st.pos, 4 + f.eaten)),
                               !.current_function_definition = Some(function_code),
                               !.pos = st.pos + 3 + f.eaten + 1,
                               !.rest = g.rest])
      [] c = "}" ->
           IF closing(st.current_function_definition)
           THEN process_loop(
                  [st EXCEPT
                    !.program_out =
                        Append(@, InstN("FuncEnd", st.current_function_definition.v,
                                        st.pos, 1)),
                    !.current_function_definition = None,
                    !.pos = st.pos + 1,
                    !.rest = rest])
           ELSE Err
      [] c = "~" ->
           LET f == fetch_identifier(rest) IN
           IF ~f.ok THEN Err
           ELSE IF f.rest = << >> \/ Head(f.rest) # ";" THEN Err
           ELSE LET method_code == lookup_code(st.method_lookup, f.ident)
                IN process_loop(
                     [st EXCEPT
                       !.method_lookup = lookup_insert(@, f.ident),
                       !.program_out =
                           Append(@, InstN("Call", method_code, st.pos, f.eaten + 2)),
                       !.pos = st.pos + 1 + f.eaten + 1,
                       !.rest = Tail(f.rest)])
      [] OTHER ->
           process_loop(
             [st EXCEPT
               !.program_out =
                   Append(@, IF SimpleOp(c) = "Nop"
                             THEN InstC("Nop", c, st.pos, 1)
                             ELSE Inst(SimpleOp(c), st.pos, 1)),
               !.pos = st.pos + 1,
               !.rest = rest])

EmptyMap == [k \in {} |-> 0]

process(program) ==
    process_loop([method_lookup |-> EmptyMap,
                  method_index |-> EmptyMap,
                  program_out |-> << >>,
                  rest |-> program,
                  pos |-> 0,
                  current_function_definition |-> None])

(***************************************************************************)
(* Runner::new and Runner::reset: the scan for the first instruction to    *)
(* execute.  Each function has its own copy of the loop in the source.     *)
(***************************************************************************)
RECURSIVE new_scan(_, _, _)
new_scan(instr, pos, silencer) ==
    IF pos >= Len(instr) THEN 0
    ELSE LET op == At(instr, pos).op IN
         CASE op = "FuncStart" -> new_scan(instr, pos + 1, TRUE)
           [] op = "FuncEnd" -> new_scan(instr, pos + 1, FALSE)
           [] op = "Nop" -> new_scan(instr, pos + 1, silencer)
           [] OTHER -> IF ~silencer THEN pos
                       ELSE new_scan(instr, pos + 1, silencer)

new_idx(instr) == new_scan(instr, 0, TRUE)

RECURSIVE reset_scan(_, _, _)
reset_scan(instr, pos, silencer) ==
    IF pos >= Len(instr) THEN 0
    ELSE LET op == At(instr, pos).op IN
         CASE op = "FuncStart" -> reset_scan(instr, pos + 1, TRUE)
           [] op = "FuncEnd" -> reset_scan(instr, pos + 1, FALSE)
           [] op = "Nop" -> reset_scan(instr, pos + 1, silencer)
           [] OTHER -> IF ~silencer THEN pos
                       ELSE reset_scan(instr, pos + 1, silencer)

\* a reset whose scan starts with the silencer off
reset_idx_unsilenced(instr) == reset_scan(instr, 0, FALSE)

reset_idx(instr) == reset_scan(instr, 0, TRUE)

\* Runner::new, given the Ok result of process
new(p) ==
    [return_positions |-> << >>,
     pointer |-> 0,
     meta_pointer |-> 0,
     is_meta |-> FALSE,
     halted |-> FALSE,
     data_ribbon |-> EmptyMap,
     meta_ribbon |-> EmptyMap,
     program |-> p.program,
     instruction_pointer |-> new_idx(p.program),
     input |-> << >>,
     output |-> << >>,
     method_index |-> p.method_index]

\* Runner::reset
reset(self) ==
    [self EXCEPT
       !.return_positions = << >>,
       !.pointer = 0,
       !.meta_pointer = 0,
       !.is_meta = FALSE,
       !.halted = FALSE,
       !.data_ribbon = EmptyMap,
       !.meta_ribbon = EmptyMap,
       !.instruction_pointer = reset_idx(self.program),
       !.input = << >>,
       !.output = << >>]

(***************************************************************************)
(* Helpers of the step engine.                                             *)
(***************************************************************************)
\* usize::MAX.  TLC's integers are 32 bits wide, so the model's usize is 31
\* bits wide: arithmetic on pointers is taken modulo UsizeMax + 1.
UsizeMax == 2147483647

\* HashMap::get(..).unwrap_or(&0)
get_or_zero(ribbon, k) == IF k \in DOMAIN ribbon THEN ribbon[k] ELSE 0

\* HashMap::insert
map_insert(ribbon, k, v) ==
    [x \in (DOMAIN ribbon) \cup {k} |-> IF x = k THEN v ELSE ribbon[x]]

\* Runner::get_value
get_value(self) ==
    IF self.is_meta
    THEN get_or_zero(self.meta_ribbon, self.meta_pointer)
    ELSE get_or_zero(self.data_ribbon, self.pointer)

\* an increment that stops at 255
saturating_add(v) == IF v = 255 THEN 255 ELSE v + 1

\* u8::wrapping_add(1), u8::wrapping_sub(1)
wrapping_add(v) == (v + 1) % 256
wrapping_sub(v) == (v + 255) % 256

\* a plus that writes the data ribbon whatever the active tape
plus_data_only(self) ==
    [self EXCEPT !.data_ribbon =
       map_insert(@, self.pointer, wrapping_add(get_or_zero(@, self.pointer)))]

\* Runner::plus
plus(self) ==
    IF self.is_meta
    THEN [self EXCEPT !.meta_ribbon =
            map_insert(@, self.meta_pointer,
                       wrapping_add(get_or_zero(@, self.meta_pointer)))]
    ELSE [self EXCEPT !.data_ribbon =
            map_insert(@, self.pointer,
                       wrapping_add(get_or_zero(@, self.pointer)))]

\* Runner::minus
minus(self) ==
    IF self.is_meta
    THEN [self EXCEPT !.meta_ribbon =
            map_insert(@, self.meta_pointer,
                       wrapping_sub(get_or_zero(@, self.meta_pointer)))]
    ELSE [self EXCEPT !.data_ribbon =
            map_insert(@, self.pointer,
                       wrapping_sub(get_or_zero(@, self.pointer)))]

\* Runner::save_pointer: push_front
save_pointer(self) ==
    [self EXCEPT !.return_positions = <<self.instruction_pointer>> \o @]

\* a step in progress: the Runner, whether a panic has unwound the call, and
\* the indices of the instructions whose arm ran (Nop arms apart)
Going(self, ran) == [self |-> self, panic |-> FALSE, ran |-> ran]
Panic(self, ran) == [self |-> self, panic |-> TRUE, ran |-> ran]

\* ip += 1
advance(self) == [self EXCEPT !.instruction_pointer = @ + 1]

\* `usize -= 1` and `usize += 1`: with overflow checks the operation panics,
\* without them it wraps
sub_one(v, checks) ==
    IF v = 0 THEN (IF checks THEN None ELSE Some(UsizeMax)) ELSE Some(v - 1)
add_one(v, checks) ==
    IF v = UsizeMax THEN (IF checks THEN None ELSE Some(0)) ELSE Some(v + 1)

\* a scan that stops at the first CloseLoop, whatever the nesting
RECURSIVE open_loop_scan_flat(_, _, _)
open_loop_scan_flat(self, varen, ran) ==
    IF varen > 0
    THEN LET s == advance(self) IN
         IF s.instruction_pointer >= Len(s.program)
         THEN Panic(s, ran)
         ELSE open_loop_scan_flat(
                s,
                IF At(s.program, s.instruction_pointer).op = "CloseLoop"
                THEN 0 ELSE varen,
                ran)
    ELSE Going(advance(self), ran)

\* the OpenLoop arm's scan for the closing bracket
RECURSIVE open_loop_scan(_, _, _)
open_loop_scan(self, varen, ran) ==
    IF varen > 0
    THEN LET s == advance(self) IN
         IF s.instruction_pointer >= Len(s.program)
         THEN Panic(s, ran)  \* next_instruction: unwrap on None
         ELSE LET op == At(s.program, s.instruction_pointer).op IN
              open_loop_scan(s,
                             CASE op = "OpenLoop" -> varen + 1
                               [] op = "CloseLoop" -> varen - 1
                               [] OTHER -> varen,
                             ran)
    ELSE Going(advance(self), ran)

\* a step without the trailing loop
skip_nothing(g) == g

\* the trailing `while let MooInst::Nop(_)` loop
RECURSIVE skip_nops(_)
skip_nops(g) ==
    IF g.panic THEN g
    ELSE IF g.self.instruction_pointer >= Len(g.self.program)
         THEN Panic(g.self, g.ran)
         ELSE IF At(g.self.program, g.self.instruction_pointer).op = "Nop"
              THEN skip_nops(Going(advance(g.self), g.ran))
              ELSE g

\* Runner::get_data_pointer
get_data_pointer(self) == self.pointer

\* usize::div_euclid
div_euclid(a, b) == a \div b

\* Runner::get_ribbon_around: the cells of the half-open range, in order
get_ribbon_around(self, count) ==
    LET lo == div_euclid(self.pointer, count) * count
        hi == (div_euclid(self.pointer, count) + 1) * count
    IN [x \in 1..(hi - lo) |-> get_or_zero(self.data_ribbon, lo + x - 1)]

\* Iterator::take(n) over a sequence
take(s, n) == SubSeq(s, 1, IF n < Len(s) THEN n ELSE Len(s))

\* a jump_list that ignores its cap
jump_list_uncapped(self, max_of) == self.return_positions

\* Runner::jump_list
jump_list(self, max_of) ==
    take(self.return_positions,
         IF max_of.some THEN max_of.v ELSE Len(self.return_positions))

\* an In arm that moves on to the next instruction
in_arm_advances(self) == advance(self)

\* an In arm that halts when no input is buffered
in_arm_halts(self) == [self EXCEPT !.halted = TRUE]

\* the In arm: its body is commented out
in_arm(self) == self

\* an Out arm that reads the data ribbon whatever the active tape
out_arm_data_only(self) ==
    advance([self EXCEPT
               !.output = Append(@, get_or_zero(self.data_ribbon, self.pointer))])

\* the Out arm: char::from(val) pushed on output; a char is held as its code
out_arm(self) ==
    advance([self EXCEPT !.output = Append(@, get_value(self))])

\* a Halt arm that flips the flag instead of setting it
halt_arm_toggles(self) == [self EXCEPT !.halted = ~@]

\* the Halt arm
halt_arm(self) == [self EXCEPT !.halted = TRUE]

\* Runner::retrieve_pointer: pop_front().unwrap(); None stands for the panic
retrieve_pointer(self) ==
    IF self.return_positions = << >> THEN None
    ELSE Some([position |-> Head(self.return_positions),
               self |-> [self EXCEPT !.return_positions = Tail(@)]])

\* the CloseLoop arm
close_loop_arm(self, ran) ==
    LET r == retrieve_pointer(self) IN
    IF ~r.some THEN Panic(self, ran)
    ELSE Going([r.v.self EXCEPT !.instruction_pointer = r.v.position], ran)

\* a Call arm that steps over a call to an unknown id
call_arm_skips_unknown(self, n, ran) ==
    IF n \notin DOMAIN self.method_index
    THEN Going(advance(self), ran)
    ELSE Going([save_pointer(self) EXCEPT
                  !.instruction_pointer = self.method_index[n]], ran)

\* the Call arm
call_arm(self, n, ran) ==
    IF n \notin DOMAIN self.method_index
    THEN Panic(self, ran)  \* method_index.get(n).unwrap()
    ELSE Going([save_pointer(self) EXCEPT
                  !.instruction_pointer = self.method_index[n]], ran)

\* a FuncEnd arm that returns to the call itself
func_end_arm_to_call(self, ran) ==
    LET r == retrieve_pointer(self) IN
    IF ~r.some THEN Panic(self, ran)
    ELSE Going([r.v.self EXCEPT !.instruction_pointer = r.v.position], ran)

\* the FuncEnd arm
func_end_arm(self, ran) ==
    LET r == retrieve_pointer(self) IN
    IF ~r.some THEN Panic(self, ran)
    ELSE Going([r.v.self EXCEPT !.instruction_pointer = r.v.position + 1], ran)

\* one arm of the match in step, for an instruction that is not a Nop
step_arm(self, instr, checks, ran) ==
    LET op == instr.op IN
    CASE op = "Halt" -> Going(halt_arm(self), ran)
      [] op = "Plus" -> Going(advance(plus(self)), ran)
      [] op = "Minus" -> Going(advance(minus(self)), ran)
      [] op = "Left" ->
           IF self.is_meta
           THEN LET v == sub_one(self.meta_pointer, checks) IN
                IF v.some THEN Going(advance([self EXCEPT !.meta_pointer = v.v]), ran)
                ELSE Panic(self, ran)
           ELSE LET v == sub_one(self.pointer, checks) IN
                IF v.some THEN Going(advance([self EXCEPT !.pointer = v.v]), ran)
                ELSE Panic(self, ran)
      [] op = "Right" ->
           IF self.is_meta
           THEN LET v == add_one(self.meta_pointer, checks) IN
                IF v.some THEN Going(advance([self EXCEPT !.meta_pointer = v.v]), ran)
                ELSE Panic(self, ran)
           ELSE LET v == add_one(self.pointer, checks) IN
                IF v.some THEN Going(advance([self EXCEPT !.pointer = v.v]), ran)
                ELSE Panic(self, ran)
      [] op = "OpenLoop" ->
           IF get_value(self) = 0
           THEN open_loop_scan(self, 1, ran)
           ELSE Going(advance(save_pointer(self)), ran)
      [] op = "CloseLoop" -> close_loop_arm(self, ran)
      [] op = "Out" -> Going(out_arm(self), ran)
      [] op = "In" -> Going(in_arm(self), ran)
      [] op = "Call" -> call_arm(self, instr.n, ran)
      [] op = "FuncStart" -> Going(advance(self), ran)
      [] op = "FuncEnd" -> func_end_arm(self, ran)
      [] OTHER -> Going([advance(self) EXCEPT !.is_meta = ~@], ran)  \* MetaJump

\* a loop whose Nop arm breaks like the others
step_loop_nop_breaks(self, checks, ran) ==
    IF self.instruction_pointer >= Len(self.program)
    THEN Panic(self, ran)
    ELSE LET instr == At(self.program, self.instruction_pointer) IN
         IF instr.op = "Nop"
         THEN Going(advance(self), ran)
         ELSE step_arm(self, instr, checks,
                       Append(ran, self.instruction_pointer))

\* the `loop` of step: a Nop arm advances and continues, any other arm breaks
RECURSIVE step_loop(_, _, _)
step_loop(self, checks, ran) ==
    IF self.instruction_pointer >= Len(self.program)
    THEN Panic(self, ran)  \* next_instruction: unwrap on None
    ELSE LET instr == At(self.program, self.instruction_pointer) IN
         IF instr.op = "Nop"
         THEN step_loop(advance(self), checks, ran)
         ELSE step_arm(self, instr, checks,
                       Append(ran, self.instruction_pointer))

\* Runner::step
step(self, checks) == skip_nops(step_loop(self, checks, << >>))

(***************************************************************************)
(* Sources.  A source is a sequence of characters, built by concatenating  *)
(* tokens (short character sequences).                                     *)
(***************************************************************************)
MaxTokens == 3
MaxCompileTokens == 3
MaxDriverTokens == 2
MaxBody == 2
MaxCalls == 2
MaxStack == 3
MaxCount == 3

RECURSIVE Flatten(_)
Flatten(ts) == IF ts = << >> THEN << >> ELSE Head(ts) \o Flatten(Tail(ts))

RECURSIVE Repeat(_, _)
Repeat(t, k) == IF k = 0 THEN << >> ELSE t \o Repeat(t, k - 1)

TokenSeqs(tokens, n) == UNION {[1..k -> tokens] : k \in 0..n}

DefA == <<"(", "a", ")", ":", "{">>
CallA == <<"~", "a", ";">>
DefB == <<"(", "b", ")", ":", "{">>
CallB == <<"~", "b", ";">>

RunTokens ==
    {<<"+">>, <<"-">>, <<">">>, <<"<">>, <<".">>, <<",">>, <<"[">>, <<"]">>,
     <<"^">>, <<" ">>, DefA, <<"}">>, CallA}

BodyTokens == {<<"+">>, <<"-">>, <<">">>, <<".">>, <<"^">>}

\* a straight-line definition followed by k calls to it
CallProgram(body, k) == DefA \o body \o <<"}">> \o Repeat(CallA, k)

CallPrograms ==
    {CallProgram(Flatten(b), k) : b \in TokenSeqs(BodyTokens, MaxBody), k \in 0..MaxCalls}

Examples ==
    {<<"+", "+", "+">>,
     <<"+", "[", "-", "]">>,
     <<"^", "+", "^">>,
     <<"(", " ", "a", "1", " ", ")", ":", "{", "+", "+", "}",
       "~", "a", "1", ";", " ", "~", " ", "a", "1", " ", ";">>,
     DefA \o <<"}">> \o CallA \o DefB \o <<"}">>,
     DefA \o <<"+", "}", "+", "[">> \o CallA \o <<"-", "]">>,
     <<"x", "+", "y", "[", "-", "z", "]", "e_acute">>,
     <<"+", "[", ">", "[", "-", "]", "<", "-", "]">>,
     DefB \o <<"}", "+", "[">> \o CallA \o DefA \o <<"]", "}">>,
     DefA \o <<"+", "}">> \o CallA \o DefA \o <<"-", "}">>,
     DefA \o <<"+", "}">> \o DefA \o <<"-", "}">> \o CallA}

RunSources ==
    {Flatten(ts) : ts \in TokenSeqs(RunTokens, MaxTokens)} \cup CallPrograms \cup Examples

\* the sources of the driver that only steps
DriverSources ==
    {Flatten(ts) : ts \in TokenSeqs(RunTokens, MaxDriverTokens)}
        \cup CallPrograms \cup Examples

CompileTokens ==
    {DefA, DefB, <<"}">>, CallA, CallB, <<"+">>, <<" ">>, <<"e_acute">>,
     <<"(">>, <<"~">>, <<"a">>, <<")">>, <<":">>, <<"{">>, <<";">>, <<"A">>}

CompileSources ==
    {Flatten(ts) : ts \in TokenSeqs(CompileTokens, MaxCompileTokens)}

(***************************************************************************)
(* State.                                                                  *)
(*   source          the text handed to Runner::new                        *)
(*   result          "Pending" before Runner::new, then "Ok" or "Err"      *)
(*   runner          the Runner (when result = "Ok")                       *)
(*   panicked        a panic has unwound a call on the Runner              *)
(*   overflow_checks whether the build checks integer overflow             *)
(*   event           the last call: its kind, the Runner before it and,    *)
(*                   for step, the indices of the instructions whose arm   *)
(*                   ran (Nop arms apart)                                  *)
(***************************************************************************)
VARIABLES source, result, runner, panicked, overflow_checks, event

vars == <<source, result, runner, panicked, overflow_checks, event>>

NoRunner == None

\* Runner::new on source text s: [ok, runner]
Runner_new(s) ==
    LET p == process(s) IN
    IF p.ok THEN [ok |-> TRUE, runner |-> new(p)]
    ELSE [ok |-> FALSE, runner |-> NoRunner]

\* the model's caps on the unbounded quantities of a run
PtrCap == MaxBody * MaxCalls + 1
OutCap == MaxBody * MaxCalls + 1
Near(v) == v <= PtrCap \/ v >= UsizeMax - PtrCap
Bounded(r) ==
    /\ Near(r.pointer)
    /\ Near(r.meta_pointer)
    /\ Len(r.return_positions) <= MaxStack
    /\ Len(r.output) <= OutCap

Constructed(sources) ==
    /\ source \in sources
    /\ overflow_checks \in BOOLEAN
    /\ result = IF Runner_new(source).ok THEN "Ok" ELSE "Err"
    /\ runner = Runner_new(source).runner
    /\ panicked = FALSE
    /\ event = [kind |-> "new", before |-> NoRunner, ran |-> << >>]

Init == Constructed(RunSources)

InitDriver == Constructed(DriverSources)

InitCompile ==
    /\ source \in CompileSources
    /\ overflow_checks \in BOOLEAN
    /\ result = "Pending"
    /\ runner = NoRunner
    /\ panicked = FALSE
    /\ event = [kind |-> "none", before |-> NoRunner, ran |-> << >>]

\* let runner = Runner::new(&source)
Construct ==
    /\ result = "Pending"
    /\ result' = IF Runner_new(source).ok THEN "Ok" ELSE "Err"
    /\ runner' = Runner_new(source).runner
    /\ event' = [kind |-> "new", before |-> NoRunner, ran |-> << >>]
    /\ UNCHANGED <<source, panicked, overflow_checks>>

\* runner.step()
Step ==
    /\ result = "Ok"
    /\ ~panicked
    /\ LET g == step(runner, overflow_checks) IN
       /\ Bounded(g.self)
       /\ runner' = g.self
       /\ panicked' = g.panic
       /\ event' = [kind |-> "step", before |-> runner, ran |-> g.ran]
    /\ UNCHANGED <<source, result, overflow_checks>>

\* runner.reset()
Reset ==
    /\ result = "Ok"
    /\ ~panicked
    /\ runner' = reset(runner)
    /\ event' = [kind |-> "reset", before |-> runner, ran |-> << >>]
    /\ UNCHANGED <<source, result, panicked, overflow_checks>>

Next == Step \/ Reset

Spec == Init /\ [][Next]_vars

\* a driver that only steps, and keeps stepping
SpecRun == InitDriver /\ [][Step]_vars /\ WF_vars(Step)

SpecCompile == InitCompile /\ [][Construct]_vars

(***************************************************************************)
(* Properties.                                                             *)
(***************************************************************************)
Ok == result = "Ok"
Stepped == Ok /\ event.kind = "step"
Ran == event.ran # << >>
RanAt == event.ran[1]
RanInstr == At(runner.program, RanAt)
Min(S) == CHOOSE x \in S : \A y \in S : x <= y

\* C1: once halted is true, a further step() leaves every field of the
\* execution state unchanged (and does not fault).
C1_HaltedStepChangesNothing ==
    (Stepped /\ event.before.halted) => (~panicked /\ runner = event.before)

C1_Witness ==
    /\ Stepped
    /\ event.before.halted
    /\ runner.data_ribbon # EmptyMap
    /\ runner.output # << >>

\* index i lies between a FuncStart and its FuncEnd, markers included
Suppressed(program, i) ==
    \E j \in 0..i :
        /\ At(program, j).op = "FuncStart"
        /\ \A k \in j..(i - 1) : At(program, k).op # "FuncEnd"

Live(program) ==
    {i \in 0..(Len(program) - 1) :
        At(program, i).op # "Nop" /\ ~Suppressed(program, i)}

\* C2: right after construction and right after reset, the instruction
\* pointer is the index of the first instruction that is neither a Nop nor
\* inside a subroutine definition.
C2_InitialPointerIsFirstLive ==
    (Ok /\ event.kind \in {"new", "reset"} /\ Live(runner.program) # {})
        => runner.instruction_pointer = Min(Live(runner.program))

\* C3: the instruction pointer is always a valid index into the program,
\* whose last instruction is Halt.
C3_PointerInProgram ==
    Ok => /\ runner.instruction_pointer < Len(runner.program)
          /\ runner.program[Len(runner.program)].op = "Halt"

\* C4: the return stack holds one entry per loop entered and not left and per
\* call not returned, so a CloseLoop or a FuncEnd is never executed while the
\* return stack is empty.
C4_NoPopOnEmptyStack ==
    (Stepped /\ Ran /\ RanInstr.op \in {"CloseLoop", "FuncEnd"})
        => event.before.return_positions # << >>

\* the last step ran a CloseLoop or FuncEnd on an empty return stack, or a
\* Call whose id has no entry in method_index
StructuralFault ==
    /\ Stepped
    /\ Ran
    /\ \/ /\ RanInstr.op \in {"CloseLoop", "FuncEnd"}
          /\ event.before.return_positions = << >>
       \/ /\ RanInstr.op = "Call"
          /\ RanInstr.n \notin DOMAIN runner.method_index

\* C5: a CloseLoop or FuncEnd on an empty return stack, or a Call to an id
\* with no method_index entry, is a fatal fault: the step does not return,
\* and nothing is committed as if the instruction had been ignored.
C5_StructuralFaultIsFatal ==
    StructuralFault =>
        /\ panicked
        /\ runner = [event.before EXCEPT !.instruction_pointer = RanAt]

C5_Witness == StructuralFault /\ RanInstr.op = "Call" /\ RanAt > 0

\* the subroutine markers of a text, read left to right: "nested" at a '('
\* met while a definition is open, "stray" at a '}' met while none is,
\* otherwise "open" or "closed" as the text ends
RECURSIVE MarkerScan(_, _)
MarkerScan(chars, open) ==
    IF chars = << >> THEN (IF open THEN "open" ELSE "closed")
    ELSE CASE Head(chars) = "(" ->
                IF open THEN "nested" ELSE MarkerScan(Tail(chars), TRUE)
           [] Head(chars) = "}" ->
                IF open THEN MarkerScan(Tail(chars), FALSE) ELSE "stray"
           [] OTHER -> MarkerScan(Tail(chars), open)

Markers(s) == MarkerScan(s, FALSE)

Compiled == result # "Pending"
Rejected == result = "Err" /\ runner = NoRunner

\* C6: a source with an unmatched subroutine marker, in particular one whose
\* definition is opened and never closed, is rejected with a compile error.
C6_UnmatchedMarkerRejected ==
    (Compiled /\ Markers(source) # "closed") => Rejected

\* C7: a '(' while a definition is open, and a '}' while none is open, make
\* the compilation fail; no program and no subroutine table are returned.
C7_NestedOrStrayRejected ==
    (Compiled /\ Markers(source) \in {"nested", "stray"}) => Rejected

C7_Witness ==
    /\ Compiled
    /\ Rejected
    /\ source = DefA \o <<"+">> \o DefB

\* C8: reset() leaves the Runner equal, field by field, to the Runner right
\* after construction; program and method_index are unchanged.
C8_ResetEqualsNew ==
    (Ok /\ event.kind = "reset") =>
        /\ runner = Runner_new(source).runner
        /\ runner.program = event.before.program
        /\ runner.method_index = event.before.method_index

C8_Witness ==
    /\ Ok
    /\ event.kind = "reset"
    /\ event.before.halted
    /\ event.before.output # << >>
    /\ event.before.pointer > 0
    /\ event.before.data_ribbon # EmptyMap

\* C9: when step() returns normally the instruction pointer is on an
\* instruction that is not a Nop, and the call ran the arm of exactly one
\* instruction that is not a Nop.
C9_StepRestsOnSemantic ==
    (Stepped /\ ~panicked) =>
        /\ runner.instruction_pointer < Len(runner.program)
        /\ At(runner.program, runner.instruction_pointer).op # "Nop"
        /\ Len(event.ran) = 1

C9_Witness ==
    /\ Stepped
    /\ ~panicked
    /\ Ran
    /\ RanInstr.op = "Plus"
    /\ event.before.instruction_pointer < RanAt
    /\ runner.instruction_pointer > RanAt + 1

\* the first index at or after i that holds no Nop
FirstNonNop(program, i) ==
    Min({j \in i..(Len(program) - 1) : At(program, j).op # "Nop"})

\* C10, the call: the return stack gains the call's index on top and the
\* instruction pointer becomes the callee's FuncStart
C10_Call ==
    (Stepped /\ Ran /\ RanInstr.op = "Call" /\ ~panicked) =>
        /\ runner.return_positions = <<RanAt>> \o event.before.return_positions
        /\ At(runner.program, runner.instruction_pointer).op = "FuncStart"
        /\ At(runner.program, runner.instruction_pointer).n = RanInstr.n
        /\ runner = [event.before EXCEPT
                       !.return_positions = runner.return_positions,
                       !.instruction_pointer = runner.instruction_pointer]

\* C10, the return: the entry on top is popped and the instruction pointer
\* rests on the first instruction that is no Nop after the call
C10_Return ==
    (Stepped /\ Ran /\ RanInstr.op = "FuncEnd"
       /\ event.before.return_positions # << >>) =>
        /\ ~panicked
        /\ runner.return_positions = Tail(event.before.return_positions)
        /\ runner.instruction_pointer =
               FirstNonNop(runner.program, Head(event.before.return_positions) + 1)
        /\ runner = [event.before EXCEPT
                       !.return_positions = runner.return_positions,
                       !.instruction_pointer = runner.instruction_pointer]

\* what a straight-line body does to the tapes, pointers, selector and
\* output, character by character
Cells == 0..PtrCap
Blank == [data |-> [p \in Cells |-> 0], meta |-> [p \in Cells |-> 0],
          pointer |-> 0, meta_pointer |-> 0, is_meta |-> FALSE, output |-> << >>]

Effect(e, c) ==
    LET at == IF e.is_meta THEN e.meta_pointer ELSE e.pointer
        tape == IF e.is_meta THEN e.meta ELSE e.data
        put(v) == IF e.is_meta THEN [e EXCEPT !.meta[at] = v]
                  ELSE [e EXCEPT !.data[at] = v]
    IN CASE c = "+" -> put(IF tape[at] = 255 THEN 0 ELSE tape[at] + 1)
         [] c = "-" -> put(IF tape[at] = 0 THEN 255 ELSE tape[at] - 1)
         [] c = ">" -> IF e.is_meta THEN [e EXCEPT !.meta_pointer = @ + 1]
                       ELSE [e EXCEPT !.pointer = @ + 1]
         [] c = "." -> [e EXCEPT !.output = Append(@, tape[at])]
         [] c = "^" -> [e EXCEPT !.is_meta = ~@]
         [] OTHER -> e

RECURSIVE Effects(_, _)
Effects(e, chars) ==
    IF chars = << >> THEN e ELSE Effects(Effect(e, Head(chars)), Tail(chars))

Shows(r, e) ==
    /\ \A p \in Cells : /\ get_or_zero(r.data_ribbon, p) = e.data[p]
                        /\ get_or_zero(r.meta_ribbon, p) = e.meta[p]
    /\ DOMAIN r.data_ribbon \subseteq Cells
    /\ DOMAIN r.meta_ribbon \subseteq Cells
    /\ r.pointer = e.pointer
    /\ r.meta_pointer = e.meta_pointer
    /\ r.is_meta = e.is_meta
    /\ r.output = e.output
    /\ r.return_positions = << >>

Bodies == {Flatten(b) : b \in TokenSeqs(BodyTokens, MaxBody)}
IsCallProgram == \E b \in Bodies, k \in 0..MaxCalls : source = CallProgram(b, k)

\* halted, having applied the body once per call
HaltedAfterCalls ==
    /\ Ok
    /\ ~panicked
    /\ runner.halted
    /\ \E b \in Bodies, k \in 0..MaxCalls :
          /\ source = CallProgram(b, k)
          /\ Shows(runner, Effects(Blank, Repeat(b, k)))

C10_Halted == (IsCallProgram /\ Ok /\ runner.halted) => HaltedAfterCalls

C11_ActiveTapeOnly ==
    (Stepped /\ Ran) =>
        /\ (RanInstr.op \in {"Plus", "Minus", "Left", "Right"} /\ event.before.is_meta)
             => runner = [event.before EXCEPT
                            !.meta_ribbon = runner.meta_ribbon,
                            !.meta_pointer = runner.meta_pointer,
                            !.instruction_pointer = runner.instruction_pointer]
        /\ (RanInstr.op \in {"Plus", "Minus", "Left", "Right"} /\ ~event.before.is_meta)
             => runner = [event.before EXCEPT
                            !.data_ribbon = runner.data_ribbon,
                            !.pointer = runner.pointer,
                            !.instruction_pointer = runner.instruction_pointer]
        /\ (RanInstr.op = "MetaJump")
             => runner = [event.before EXCEPT
                            !.is_meta = ~@,
                            !.instruction_pointer = runner.instruction_pointer]

C11_Witness ==
    /\ Stepped
    /\ Ran
    /\ RanInstr.op = "Plus"
    /\ event.before.is_meta
    /\ event.before.data_ribbon # EmptyMap
    /\ runner.meta_ribbon # event.before.meta_ribbon

\* a source of Plus, Minus, Right, Out, MetaJump and no-op characters only
StraightChars == {"+", "-", ">", ".", "^", " "}
IsStraight == \A i \in 1..Len(source) : source[i] \in StraightChars

\* C12: in a program of n straight-line instructions each step runs the next
\* instruction and leaves halted false; the tapes then show the instructions
\* run so far; the step after the n-th runs Halt, sets halted and changes no
\* cell.
C12_StraightLineRun ==
    (Ok /\ IsStraight) =>
        /\ ~panicked
        /\ Shows(runner, Effects(Blank, SubSeq(source, 1, runner.instruction_pointer)))
        /\ event.kind # "step" => ~runner.halted
        /\ event.kind = "step" =>
             /\ Len(event.ran) = 1
             /\ RanAt = FirstNonNop(runner.program, event.before.instruction_pointer)
             /\ runner.halted = (RanInstr.op = "Halt")
             /\ runner.instruction_pointer =
                    IF RanInstr.op = "Halt" THEN Len(source)
                    ELSE FirstNonNop(runner.program, RanAt + 1)

C12_Witness ==
    /\ Stepped
    /\ source = <<"+", "+", "+">>
    /\ runner.halted
    /\ ~event.before.halted
    /\ runner.data_ribbon[0] = 3

\* C13: a step whose instruction is In changes no field of the Runner (the
\* instruction pointer only moves over the Nops before the In).
C13_InIsInert ==
    (Stepped /\ Ran /\ RanInstr.op = "In") =>
        /\ ~panicked
        /\ runner = [event.before EXCEPT !.instruction_pointer = RanAt]

C13_Witness ==
    /\ Stepped
    /\ Ran
    /\ RanInstr.op = "In"
    /\ RanAt > 0
    /\ runner.data_ribbon # EmptyMap

\* the tape the selector names, and its pointer
ActivePointer(r) == IF r.is_meta THEN r.meta_pointer ELSE r.pointer
ActiveRibbon(r) == IF r.is_meta THEN r.meta_ribbon ELSE r.data_ribbon
ActiveCell(r) == get_or_zero(ActiveRibbon(r), ActivePointer(r))

\* the count cells of the active tape in the block that holds its pointer
Window(r, count) ==
    LET base == (ActivePointer(r) \div count) * count IN
    [x \in 1..count |-> get_or_zero(ActiveRibbon(r), base + x - 1)]

Unwrapped(r) == r.pointer <= PtrCap /\ r.meta_pointer <= PtrCap

\* C14: for every count >= 1 the tape-window query returns the count cells of
\* the active tape in the block of the active pointer, absent cells as 0.
C14_WindowOfActiveTape ==
    (Ok /\ Unwrapped(runner)) =>
        \A count \in 1..MaxCount :
            get_ribbon_around(runner, count) = Window(runner, count)

\* C15: the pointer-position query returns the pointer of the active tape.
C15_PointerOfActiveTape ==
    (Ok /\ Unwrapped(runner)) => get_data_pointer(runner) = ActivePointer(runner)

\* the UTF-8 bytes of a text, each byte named by its character and its place
\* in the character's encoding
RECURSIVE Bytes(_)
Bytes(chars) ==
    IF chars = << >> THEN << >>
    ELSE [k \in 1..len_utf8(Head(chars)) |-> <<Head(chars), k>>] \o Bytes(Tail(chars))

\* &text[offset .. offset + length], or no text when the range is outside it
Slice(bytes, offset, length) ==
    IF offset + length <= Len(bytes)
    THEN SubSeq(bytes, offset + 1, offset + length)
    ELSE <<"out of range">>

\* C16: the span of every Nop, sliced from the source text by byte offset and
\* length, is the Nop's character.
C16_NopSpanSlicesToChar ==
    (Compiled /\ Ok) =>
        \A i \in 0..(Len(runner.program) - 1) :
            At(runner.program, i).op = "Nop" =>
                Slice(Bytes(source), At(runner.program, i).span[1],
                      At(runner.program, i).span[2])
                  = Bytes(<<At(runner.program, i).c>>)

\* C17: both pointers are non-negative, and a Left on a pointer that is 0
\* neither aborts the step nor wraps the pointer to the largest usize.
C17_LeftAtZeroDefined ==
    /\ Ok => (runner.pointer >= 0 /\ runner.meta_pointer >= 0)
    /\ (Stepped /\ Ran /\ RanInstr.op = "Left" /\ ActivePointer(event.before) = 0)
         => (~panicked /\ ActivePointer(runner) # UsizeMax)

\* the subroutine names of a text in order of occurrence: the identifier
\* after each '(' and each '~', blanks before it skipped
RECURSIVE SkipBlanks(_)
SkipBlanks(chars) ==
    IF chars # << >> /\ Head(chars) \in Whitespace
    THEN SkipBlanks(Tail(chars)) ELSE chars

RECURSIVE TakeName(_)
TakeName(chars) ==
    IF chars # << >> /\ Head(chars) \in AsciiAlnum \cup {"_"}
    THEN <<Head(chars)>> \o TakeName(Tail(chars)) ELSE << >>

RECURSIVE Names(_)
Names(chars) ==
    IF chars = << >> THEN << >>
    ELSE IF Head(chars) \in {"(", "~"}
         THEN <<TakeName(SkipBlanks(Tail(chars)))>> \o Names(Tail(chars))
         ELSE Names(Tail(chars))

\* how many distinct names occur before the first occurrence of names[i]
FirstSeenRank(names, i) ==
    LET first == Min({j \in 1..i : names[j] = names[i]}) IN
    Cardinality({names[j] : j \in 1..(first - 1)})

IsNaming(instr) == instr.op \in {"Call", "FuncStart"}

\* C18: the ids of Call, FuncStart and FuncEnd are 0..k-1 for the k distinct
\* names of the source, numbered by first occurrence in a definition or a
\* call; two occurrences share an id exactly when they share a name.
C18_IdsByFirstOccurrence ==
    (Compiled /\ Ok) =>
        LET names == Names(source)
            naming == SelectSeq(runner.program, IsNaming)
        IN /\ Len(naming) = Len(names)
           /\ \A i \in 1..Len(names) : naming[i].n = FirstSeenRank(names, i)
           /\ \A i, j \in 1..Len(names) :
                  (naming[i].n = naming[j].n) <=> (names[i] = names[j])
           /\ {naming[i].n : i \in 1..Len(names)}
                  = 0..(Cardinality({names[i] : i \in 1..Len(names)}) - 1)
           /\ \A e \in 0..(Len(runner.program) - 1) :
                  At(runner.program, e).op = "FuncEnd" =>
                      \E b \in 0..(e - 1) :
                          /\ At(runner.program, b).op = "FuncStart"
                          /\ At(runner.program, b).n = At(runner.program, e).n
                          /\ \A k \in (b + 1)..(e - 1) :
                                 At(runner.program, k).op # "FuncStart"

C18_Witness ==
    /\ Compiled
    /\ Ok
    /\ source = CallB \o DefA \o CallB
    /\ At(runner.program, 0).n = 0
    /\ At(runner.program, 1).n = 1
    /\ At(runner.program, 2).n = 0

\* C19: over steps halted never goes from true to false, and goes from false
\* to true only in a step that runs Halt.
C19_HaltedOneWay ==
    Stepped =>
        /\ event.before.halted => runner.halted
        /\ (~event.before.halted /\ runner.halted) => (Ran /\ RanInstr.op = "Halt")

C19_Witness ==
    /\ Stepped
    /\ ~event.before.halted
    /\ runner.halted
    /\ Ran
    /\ RanAt > 0

\* C20: the output before a step is a prefix of the output after it; it
\* grows only in a step that runs Out, and then by the one character whose
\* code is the active cell (0 when absent).
C20_OutputAppendOnly ==
    Stepped =>
        /\ Len(event.before.output) <= Len(runner.output)
        /\ SubSeq(runner.output, 1, Len(event.before.output)) = event.before.output
        /\ IF Ran /\ RanInstr.op = "Out"
           THEN runner.output = Append(event.before.output, ActiveCell(event.before))
           ELSE runner.output = event.before.output

C20_Witness ==
    /\ Stepped
    /\ Ran
    /\ RanInstr.op = "Out"
    /\ event.before.is_meta
    /\ runner.output = <<1>>

\* the last step pushed on the return stack: a Call that found its callee, or
\* an OpenLoop on a non-zero cell
Pushed ==
    /\ Stepped
    /\ Ran
    /\ ~panicked
    /\ \/ RanInstr.op = "Call"
       \/ RanInstr.op = "OpenLoop" /\ ActiveCell(event.before) # 0

\* the last step popped the return stack: a CloseLoop or a FuncEnd
Popped ==
    /\ Stepped
    /\ Ran
    /\ ~panicked
    /\ RanInstr.op \in {"CloseLoop", "FuncEnd"}

\* C21: the return-stack query lists the entries from the most recently
\* pushed to the oldest (a push puts its entry first, a pop removes the first
\* entry, nothing else changes the list); with a cap N it returns the first
\* min(N, depth) entries of that list, with no cap all of them.
C21_JumpListMostRecentFirst ==
    Ok =>
        /\ event.kind \in {"new", "reset"} => jump_list(runner, None) = << >>
        /\ Pushed => jump_list(runner, None)
                         = <<RanAt>> \o jump_list(event.before, None)
        /\ Popped => jump_list(event.before, None)
                         = <<event.before.return_positions[1]>>
                               \o jump_list(runner, None)
        /\ (Stepped /\ ~Pushed /\ ~Popped)
              => jump_list(runner, None) = jump_list(event.before, None)
        /\ Len(jump_list(runner, None)) = Len(runner.return_positions)
        /\ \A N \in 0..(MaxStack + 1) :
              LET depth == Len(runner.return_positions) IN
              jump_list(runner, Some(N))
                  = SubSeq(jump_list(runner, None), 1, Min({N, depth}))

C21_Witness ==
    /\ Pushed
    /\ Len(runner.return_positions) = 2
    /\ jump_list(runner, Some(1)) = <<RanAt>>
    /\ jump_list(runner, None) = <<RanAt, event.before.return_positions[1]>>
    /\ RanAt # event.before.return_positions[1]

\* the nesting depth, counted from the OpenLoop at i, after the instruction
\* at j
Depth(program, i, j) ==
    1 + Cardinality({k \in (i + 1)..j : At(program, k).op = "OpenLoop"})
      - Cardinality({k \in (i + 1)..j : At(program, k).op = "CloseLoop"})

\* the CloseLoops that bring the depth of the OpenLoop at i back to zero; the
\* first of them matches i
Closers(program, i) ==
    {m \in (i + 1)..(Len(program) - 1) : Depth(program, i, m) = 0}

MatchingEnd(program, i) == Min(Closers(program, i))

\* C22: a step that runs the OpenLoop at i on a zero cell leaves the return
\* stack alone and rests on the first instruction that is no Nop at or after
\* m + 1, m the CloseLoop matching i by nesting depth; on a non-zero cell it
\* pushes i and rests on the first instruction that is no Nop after i.
C22_OpenLoop ==
    (Stepped /\ Ran /\ RanInstr.op = "OpenLoop") =>
        IF ActiveCell(event.before) = 0
        THEN Closers(runner.program, RanAt) # {} =>
               /\ ~panicked
               /\ runner = [event.before EXCEPT
                              !.instruction_pointer =
                                  FirstNonNop(runner.program,
                                              MatchingEnd(runner.program, RanAt) + 1)]
        ELSE /\ ~panicked
             /\ runner = [event.before EXCEPT
                            !.return_positions = <<RanAt>> \o @,
                            !.instruction_pointer =
                                FirstNonNop(runner.program, RanAt + 1)]

\* the outer loop of a nested pair is skipped over the inner pair
C22_Witness ==
    /\ Stepped
    /\ Ran
    /\ RanInstr.op = "OpenLoop"
    /\ ActiveCell(event.before) = 0
    /\ ~panicked
    /\ Closers(runner.program, RanAt) # {}
    /\ \E k \in (RanAt + 1)..(MatchingEnd(runner.program, RanAt) - 1) :
           At(runner.program, k).op = "CloseLoop"
    /\ runner.instruction_pointer = MatchingEnd(runner.program, RanAt) + 1
    /\ runner.data_ribbon # EmptyMap

\* the loop brackets of a program are balanced: no prefix closes more loops
\* than it opens, and the whole program closes as many as it opens
Opens(program, j) ==
    Cardinality({k \in 0..j : At(program, k).op = "OpenLoop"})
Closes(program, j) ==
    Cardinality({k \in 0..j : At(program, k).op = "CloseLoop"})
Balanced(program) ==
    /\ \A j \in 0..(Len(program) - 1) : Closes(program, j) <= Opens(program, j)
    /\ Closes(program, Len(program) - 1) = Opens(program, Len(program) - 1)

\* the OpenLoop that the CloseLoop at j matches
MatchingStart(program, j) ==
    CHOOSE i \in 0..(j - 1) :
        /\ At(program, i).op = "OpenLoop"
        /\ Closers(program, i) # {}
        /\ MatchingEnd(program, i) = j

\* C23: in a program with balanced loop brackets, a step that runs a
\* CloseLoop pops the index of the OpenLoop matching it and leaves the
\* instruction pointer there; so "+[-]" halts with cell 0 at 0 and an empty
\* return stack.
C23_CloseLoopReentersMatching ==
    /\ (Stepped /\ Ran /\ RanInstr.op = "CloseLoop" /\ Balanced(runner.program)) =>
          /\ ~panicked
          /\ event.before.return_positions # << >>
          /\ event.before.return_positions[1] = MatchingStart(runner.program, RanAt)
          /\ runner = [event.before EXCEPT
                         !.return_positions = Tail(@),
                         !.instruction_pointer = MatchingStart(runner.program, RanAt)]
    /\ (Ok /\ source = <<"+", "[", "-", "]">> /\ runner.halted) =>
          /\ get_or_zero(runner.data_ribbon, 0) = 0
          /\ runner.return_positions = << >>

\* v + 1 and v - 1 modulo 256
Succ256(v) == IF v = 255 THEN 0 ELSE v + 1
Pred256(v) == IF v = 0 THEN 255 ELSE v - 1

\* ribbon `after` is ribbon `before` with cell p set to w and no other change
OnlyCellSet(before, after, p, w) ==
    /\ DOMAIN after = (DOMAIN before) \cup {p}
    /\ after[p] = w
    /\ \A q \in DOMAIN before : q # p => after[q] = before[q]

\* C24: Plus and Minus replace the cell of the active tape at the active
\* pointer by (v + 1) mod 256 and (v - 1) mod 256, v being 0 for an absent
\* cell; no other cell and no other field changes, the instruction pointer
\* moves to the next instruction, and every stored cell is in 0..255.
C24_PlusMinusWrap ==
    /\ Ok => /\ \A q \in DOMAIN runner.data_ribbon : runner.data_ribbon[q] \in 0..255
             /\ \A q \in DOMAIN runner.meta_ribbon : runner.meta_ribbon[q] \in 0..255
    /\ (Stepped /\ Ran /\ RanInstr.op \in {"Plus", "Minus"}) =>
          LET v == ActiveCell(event.before)
              w == IF RanInstr.op = "Plus" THEN Succ256(v) ELSE Pred256(v)
          IN /\ ~panicked
             /\ OnlyCellSet(ActiveRibbon(event.before), ActiveRibbon(runner),
                            ActivePointer(event.before), w)
             /\ runner = [event.before EXCEPT
                            !.data_ribbon = IF event.before.is_meta
                                            THEN @ ELSE runner.data_ribbon,
                            !.meta_ribbon = IF event.before.is_meta
                                            THEN runner.meta_ribbon ELSE @,
                            !.instruction_pointer =
                                FirstNonNop(runner.program, RanAt + 1)]

\* Plus on a cell that an earlier Minus on the absent cell left at 255
C24_Witness ==
    /\ Stepped
    /\ Ran
    /\ RanInstr.op = "Plus"
    /\ ActivePointer(event.before) \in DOMAIN ActiveRibbon(event.before)
    /\ ActiveCell(event.before) = 255
    /\ ActiveCell(runner) = 0

\* the names that follow the characters of `marks` in a text
RECURSIVE NamesAfter(_, _)
NamesAfter(chars, marks) ==
    IF chars = << >> THEN {}
    ELSE (IF Head(chars) \in marks
          THEN {TakeName(SkipBlanks(Tail(chars)))} ELSE {})
             \cup NamesAfter(Tail(chars), marks)

CalledNames(s) == NamesAfter(s, {"~"})
DefinedNames(s) == NamesAfter(s, {"("})

Calls(program) ==
    {i \in 0..(Len(program) - 1) : At(program, i).op = "Call"}

\* C25: when every called name of an accepted source is defined somewhere in
\* it, method_index has an entry for the id of every Call, and the entry is
\* the index of a FuncStart with that id; step() and reset() leave
\* method_index as it was.
C25_TableCoversCalls ==
    /\ (Ok /\ CalledNames(source) \subseteq DefinedNames(source)) =>
          \A i \in Calls(runner.program) :
              LET n == At(runner.program, i).n IN
              /\ n \in DOMAIN runner.method_index
              /\ runner.method_index[n] \in 0..(Len(runner.program) - 1)
              /\ At(runner.program, runner.method_index[n]).op = "FuncStart"
              /\ At(runner.program, runner.method_index[n]).n = n
    /\ (Ok /\ event.kind \in {"step", "reset"}) =>
          /\ runner.method_index = event.before.method_index
          /\ runner.program = event.before.program

\* a call written before the definition of its name, after a step and a reset
C25_Witness ==
    /\ Ok
    /\ event.kind = "reset"
    /\ event.before.halted
    /\ CalledNames(source) # {}
    /\ CalledNames(source) \subseteq DefinedNames(source)
    /\ \E i \in Calls(runner.program) :
           runner.method_index[At(runner.program, i).n] > i

\* the instruction pointer of r rests on an In
OnIn(r) ==
    /\ r.instruction_pointer < Len(r.program)
    /\ At(r.program, r.instruction_pointer).op = "In"

RestsOnIn == Ok /\ ~panicked /\ OnIn(runner)

\* a step taken on an In ran that In and nothing else, and changed nothing
C26_InStep ==
    /\ RestsOnIn => ~runner.halted
    /\ (Stepped /\ OnIn(event.before)) =>
          /\ ~panicked
          /\ event.ran = <<event.before.instruction_pointer>>
          /\ runner = event.before

\* C26: once the instruction pointer rests on an In, every later step()
\* leaves it on that In: halted stays false and no instruction after the In
\* is run, however many steps are taken.
C26_InHoldsForever ==
    /\ [](C26_InStep)
    /\ [][RestsOnIn => (runner' = runner /\ ~panicked')]_vars
    /\ [](RestsOnIn => [](RestsOnIn /\ ~runner.halted))

\* a second step on an In that a Plus follows
C26_Witness ==
    /\ Stepped
    /\ OnIn(event.before)
    /\ OnIn(runner)
    /\ event.ran = <<runner.instruction_pointer>>
    /\ At(runner.program, runner.instruction_pointer + 1).op = "Plus"

Max(S) == CHOOSE x \in S : \A y \in S : y <= x

\* the indices of the definitions of id n, and the last of them
Defs(program, n) ==
    {i \in 0..(Len(program) - 1) :
        At(program, i).op = "FuncStart" /\ At(program, i).n = n}
LastDef(program, n) == Max(Defs(program, n))

\* the names defined by a text, one per '(' and in order
RECURSIVE DefNames(_)
DefNames(chars) ==
    IF chars = << >> THEN << >>
    ELSE IF Head(chars) = "("
         THEN <<TakeName(SkipBlanks(Tail(chars)))>> \o DefNames(Tail(chars))
         ELSE DefNames(Tail(chars))

IsFuncStart(instr) == instr.op = "FuncStart"

\* what follows a '(' or a '~' is well formed: blanks, a name that starts
\* with a lower-case letter, blanks, and then the closing characters
HeadOk(chars, closing_chars) ==
    LET after == SkipBlanks(chars)
        name == TakeName(after)
        rest == SkipBlanks(SubSeq(after, Len(name) + 1, Len(after)))
    IN /\ after # << >>
       /\ Head(after) \in AsciiLower
       /\ Len(rest) >= Len(closing_chars)
       /\ SubSeq(rest, 1, Len(closing_chars)) = closing_chars

HeadsOk(s) ==
    \A i \in 1..Len(s) :
        /\ s[i] = "(" => HeadOk(SubSeq(s, i + 1, Len(s)), <<")", ":", "{">>)
        /\ s[i] = "~" => HeadOk(SubSeq(s, i + 1, Len(s)), <<";">>)

\* C27: defining a name again is no compile error; all definitions of a name
\* share one id; method_index maps that id to the FuncStart of the last
\* definition in the source, and a Call of the name, wherever it is written,
\* jumps there.
C27_LastDefinitionWins ==
    /\ (Markers(source) \in {"closed", "open"} /\ HeadsOk(source)) => Ok
    /\ Ok =>
          LET starts == SelectSeq(runner.program, IsFuncStart)
              names == DefNames(source)
          IN /\ Len(starts) = Len(names)
             /\ \A i, j \in 1..Len(names) :
                    (names[i] = names[j]) <=> (starts[i].n = starts[j].n)
             /\ DOMAIN runner.method_index = {starts[i].n : i \in 1..Len(starts)}
             /\ \A n \in DOMAIN runner.method_index :
                    runner.method_index[n] = LastDef(runner.program, n)
    /\ (Stepped /\ Ran /\ RanInstr.op = "Call" /\ ~panicked) =>
          runner.instruction_pointer = LastDef(runner.program, RanInstr.n)

\* a call written between two definitions of its name runs and lands on the
\* second
C27_Witness ==
    /\ Stepped
    /\ Ran
    /\ RanInstr.op = "Call"
    /\ ~panicked
    /\ Cardinality(Defs(runner.program, RanInstr.n)) = 2
    /\ \E i \in Defs(runner.program, RanInstr.n) : i < RanAt
    /\ runner.instruction_pointer > RanAt
    /\ runner.instruction_pointer = runner.method_index[RanInstr.n]

====
